---- MODULE Spec2Model ----
(***************************************************************************)
(* A model of the search client of src/search.go: Client.Search,           *)
(* Client.newSearchRequest, ensureCorrectFieldsParam and makeResponse.     *)
(*                                                                         *)
(* Strings are sequences of atoms: an atom is a chunk of text that no      *)
(* operation of the program looks inside ("type", "id", "application/json")*)
(* or a single separator character (",", ";", " ").  "id,type" is          *)
(* <<"id", ",", "type">> and "typeid" is <<"type", "id">>, so splitting,   *)
(* trimming and comparing are computed, not assumed.                       *)
(***************************************************************************)
EXTENDS Integers, Sequences, FiniteSets, TLC

VARIABLES
    c,          \* the Client: baseURL, appName, httpClient
    c0,         \* history: the Client when Search was called
    query,      \* the caller's url.Values, changed in place by Search
    query0,     \* history: the caller's url.Values when Search was called
    pc,         \* the position of the Search invocation
    req,        \* the *http.Request built by newSearchRequest
    resp,       \* the *http.Response returned by c.httpClient.Do
    doErr,      \* the error returned by c.httpClient.Do
    meta,       \* Search's local meta
    response,   \* makeResponse's local response (the accumulator)
    rest,       \* makeResponse: the raw hits of v.Hits not yet visited
    mr,         \* what makeResponse returned: (Response, error)
    ret,        \* what Search returned: (Response, error)
    calls,      \* history: the number of c.httpClient.Do calls
    bodyLog,    \* history: the operations on resp.Body, in order
    unread,     \* the bytes of resp.Body not yet read
    normTrace,  \* ensureCorrectFieldsParam applied again and again
    ctSeen,     \* isJSONResponse: the response tried and the answer
    heap,       \* two invocations: the url.Values maps of the callers
    qref,       \* two invocations: the map each invocation was given
    cpc,        \* two invocations: the position of each
    local,      \* two invocations: the local variable fields of each
    acc,        \* two invocations: the accesses each made to shared objects
    cout        \* two invocations: the RawQuery each built

vars == <<c, c0, query, query0, pc, req, resp, doErr, meta, response, rest, mr, ret,
          calls, bodyLog, unread, normTrace, ctSeen, heap, qref, cpc, local,
          acc, cout>>

searchVars == <<c, c0, query, query0, pc, req, resp, doErr, meta, response, rest,
                mr, ret, calls, bodyLog, unread>>

concVars == <<heap, qref, cpc, local, acc, cout>>

notConcVars == <<c, c0, query, query0, pc, req, resp, doErr, meta, response, rest,
                 mr, ret, calls, bodyLog, unread, normTrace, ctSeen>>

(***************************************************************************)
(* Bounds of the model.                                                    *)
(***************************************************************************)
\* the longest fields string, in atoms, that the normalizer is tried on
MaxFieldLen == 3
\* the longest Content-Type value, in atoms
MaxCTLen == 4
\* the longest "assets" array of a response body
MaxHits == 2

(***************************************************************************)
(* Strings.                                                                *)
(***************************************************************************)
SeqsUpTo(S, n) == UNION {[1..k -> S] : k \in 0..n}

EmptyString == <<>>

RECURSIVE Split(_, _)
\* strings.Split(s, sep) for a one-character sep: the pieces between the
\* separators, "" giving one empty piece.
Split(s, sep) ==
    IF \A i \in 1..Len(s) : s[i] # sep
    THEN <<s>>
    ELSE LET k == CHOOSE i \in 1..Len(s) :
                      s[i] = sep /\ \A j \in 1..(i - 1) : s[j] # sep
         IN  <<SubSeq(s, 1, k - 1)>> \o Split(SubSeq(s, k + 1, Len(s)), sep)

(***************************************************************************)
(* url.Values: a map from key to a list of strings, or the nil map.  A key *)
(* that is absent holds the empty list.                                    *)
(***************************************************************************)
Keys == {"client", "fields", "q"}

KeysSorted == <<"client", "fields", "q">>

NilValues == [isNil |-> TRUE, m |-> [k \in Keys |-> <<>>]]

MakeValues(f) == [isNil |-> FALSE, m |-> f]

\* url.Values.Get: the first value of the key, "" when there is none
Get(v, key) == IF Len(v.m[key]) = 0 THEN EmptyString ELSE v.m[key][1]

\* url.Values.Set: the key's list becomes the one value
Set(v, key, value) == [v EXCEPT !.m[key] = <<value>>]

\* url.QueryEscape on the atoms that need it
QueryEscape(s) ==
    [i \in 1..Len(s) |-> CASE s[i] = "," -> "%2C"
                           [] s[i] = " " -> "+"
                           [] OTHER -> s[i]]

RECURSIVE EncodeFrom(_, _)
EncodeFrom(v, i) ==
    IF i > Len(KeysSorted)
    THEN <<>>
    ELSE LET k == KeysSorted[i]
         IN  [j \in 1..Len(v.m[k]) |-> <<k, QueryEscape(v.m[k][j])>>]
                 \o EncodeFrom(v, i + 1)

\* url.Values.Encode: key=value pairs sorted by key, the values escaped
Encode(v) == EncodeFrom(v, 1)

(***************************************************************************)
(* ensureCorrectFieldsParam (src/search.go:110-123).                       *)
(***************************************************************************)
\* a plausible slip: strings.Contains(fields, "type") instead of the loop
\* over the comma-separated elements
ensureCorrectFieldsParamContains(q) ==
    LET fields == Get(q, "fields")
    IN  IF fields # EmptyString
        THEN IF \E i \in 1..Len(fields) : fields[i] = "type"
             THEN q
             ELSE Set(q, "fields", fields \o <<",", "type">>)
        ELSE q

ensureCorrectFieldsParam(q) ==
    LET fields == Get(q, "fields")
    IN  IF fields # EmptyString
        THEN LET parts == Split(fields, ",")
                 match == \E i \in 1..Len(parts) : parts[i] = <<"type">>
             IN  IF ~match
                 THEN Set(q, "fields", fields \o <<",", "type">>)
                 ELSE q
        ELSE q

(***************************************************************************)
(* Errors are values of one shape: the kind of error and its text.         *)
(***************************************************************************)
NoError == [kind |-> "nil", text |-> <<>>]

\* src/search.go:18
ErrTypeMissing == [kind |-> "errors.New", text |-> <<"type missing">>]

\* src/search.go:21
ErrContentTypeNotJSON == [kind |-> "errors.New", text |-> <<"Content-Type not JSON">>]

\* src/search.go:24
ErrInvalidBaseURL == [kind |-> "errors.New", text |-> <<"invalid base URL">>]

\* the error of url.Parse on a path with an invalid escape
URLParseError == [kind |-> "url.Error", text |-> <<"invalid URL escape">>]

\* the errors the transport may give: c.httpClient.Do failed
TransportErrors ==
    {[kind |-> "transport", text |-> <<"dial tcp: connection refused">>],
     [kind |-> "transport", text |-> <<"context deadline exceeded">>]}

\* the error of encoding/json on a body that does not parse
JSONSyntaxError == [kind |-> "json", text |-> <<"invalid character">>]

\* the error of encoding/json on a value of the wrong shape
JSONTypeError == [kind |-> "json", text |-> <<"cannot unmarshal">>]

(***************************************************************************)
(* net/http: the status codes and reason phrases used here.                *)
(***************************************************************************)
StatusOK == 200

StatusCodes == {StatusOK, 404, 500}

\* http.StatusText
StatusText(code) ==
    CASE code = 200 -> "OK"
      [] code = 404 -> "Not Found"
      [] code = 500 -> "Internal Server Error"
      [] OTHER -> ""

(***************************************************************************)
(* URLs, requests, responses.                                              *)
(***************************************************************************)
NilURL == [isNil |-> TRUE, Path |-> <<>>, RawQuery |-> <<>>]

\* a base URL as SetBaseURL parses it: Path is the decoded path, in segments
MakeURL(path) == [isNil |-> FALSE, Path |-> path, RawQuery |-> <<>>]

NilRequest == [isNil |-> TRUE, URL |-> NilURL, XRequestId |-> ""]

NilHeader == [isNil |-> TRUE, ContentType |-> <<>>]

\* an http.Header holding the Content-Type values cts (none: the key is absent)
MakeHeader(cts) == [isNil |-> FALSE, ContentType |-> cts]

\* http.Header.Get("Content-Type"): the first value, "" when there is none
HeaderGet(h) == IF Len(h.ContentType) = 0 THEN EmptyString ELSE h.ContentType[1]

NilBody == [wellFormed |-> FALSE, total_hits |-> 0, assets |-> <<>>, message |-> ""]

NilResponse == [isNil |-> TRUE, StatusCode |-> 0, Header |-> NilHeader, Body |-> NilBody]

\* the zero Meta, Meta{}
ZeroMeta == [StatusCode |-> 0, Header |-> NilHeader, RequestURL |-> NilURL]

\* the zero Response, Response{}
ZeroResponse == [TotalHits |-> 0, Hits |-> <<>>, Meta |-> ZeroMeta]

\* Response{Meta: meta}
MetaOnly(m) == [TotalHits |-> 0, Hits |-> <<>>, Meta |-> m]

\* Meta{StatusCode: resp.StatusCode, Header: resp.Header, RequestURL: req.URL}
MakeMeta(rq, rs) ==
    [StatusCode |-> rs.StatusCode, Header |-> rs.Header, RequestURL |-> rq.URL]

\* a pair (Response, error) not yet returned
NoReturn == [set |-> FALSE, response |-> ZeroResponse, err |-> NoError]

Return(r, e) == [set |-> TRUE, response |-> r, err |-> e]

(***************************************************************************)
(* Response bodies.  A body either fails to parse as JSON or is an object  *)
(* with total_hits, the assets array and message.  A raw hit of the array  *)
(* either cannot be peeked (it is no object, or its type is no string) or  *)
(* has a type (none: ""), its payload fields, and other fields that are    *)
(* well-typed (structOK) or not.                                           *)
(***************************************************************************)
HitTypes == {"series", "movie", "Series"}

Payloads == {[id |-> "s1", video_id |-> "a1"], [id |-> "s2", video_id |-> "a2"]}

RawHit(peek, t, ok, p) ==
    [peekOK |-> peek, type |-> t, structOK |-> ok, id |-> p.id, video_id |-> p.video_id]

FirstPayload == [id |-> "s1", video_id |-> "a1"]

RawHits ==
    {RawHit(FALSE, "", FALSE, FirstPayload), RawHit(TRUE, "", TRUE, FirstPayload)}
        \cup {RawHit(TRUE, t, TRUE, p) : t \in HitTypes, p \in Payloads}
        \cup {RawHit(TRUE, t, FALSE, FirstPayload) : t \in HitTypes}

Bodies ==
    {NilBody,
     [wellFormed |-> TRUE, total_hits |-> 0, assets |-> <<>>, message |-> "not found"]}
        \cup {[wellFormed |-> TRUE, total_hits |-> n, assets |-> a, message |-> ""] :
                 n \in {2, 7}, a \in SeqsUpTo(RawHits, MaxHits)}

\* the length of a body in bytes: a short text when it does not parse, and
\* otherwise an object that grows with its hits, so that bodies below and
\* above the 64 bytes of the drain both occur.  A json.Decoder reads a body
\* of this size to its end in one Read, so a decoded body has nothing unread.
BodyLen(b) == IF b.wellFormed THEN 30 + 40 * Len(b.assets) ELSE 9

(***************************************************************************)
(* isJSONResponse.  The function is called by Search (src/search.go:54,64) *)
(* and tested by TestIsJSONResponse; its body is not among the sources, so *)
(* it is modelled from the specification: the Content-Type value, cut at   *)
(* the first ";" and trimmed of spaces, equals application/json.           *)
(***************************************************************************)
RECURSIVE TrimLeft(_)
TrimLeft(s) == IF Len(s) > 0 /\ s[1] = " " THEN TrimLeft(Tail(s)) ELSE s

RECURSIVE TrimRight(_)
TrimRight(s) ==
    IF Len(s) > 0 /\ s[Len(s)] = " " THEN TrimRight(SubSeq(s, 1, Len(s) - 1)) ELSE s

TrimSpace(s) == TrimLeft(TrimRight(s))

\* the media type of a Content-Type value: what precedes the first ";"
MediaType(s) == TrimSpace(Split(s, ";")[1])

\* a plausible slip: the value only has to start with application/json
isJSONResponsePrefix(rs) ==
    LET ct == HeaderGet(rs.Header)
    IN  Len(ct) > 0 /\ ct[1] = "application/json"

isJSONResponse(rs) == MediaType(HeaderGet(rs.Header)) = <<"application/json">>

(***************************************************************************)
(* Client.newSearchRequest (src/search.go:76-108).                         *)
(***************************************************************************)
\* path.Join(c.baseURL.Path, "/search")
PathJoinSearch(path) == path \o <<"search">>

\* url.Parse of a path: it fails on a segment with an invalid escape
urlParseFails(path) == \E i \in 1..Len(path) : path[i] = "%zz"

\* what newSearchRequest returns, and the url.Values it leaves to the caller
NewRequestResult(rq, e, q) == [req |-> rq, err |-> e, query |-> q]

\* a plausible slip: rel, _ := url.Parse(...)
newSearchRequestNoParseCheck(cl, q, requestID) ==
    IF cl.baseURL.isNil
    THEN NewRequestResult(NilRequest, ErrInvalidBaseURL, q)
    ELSE LET q1 == ensureCorrectFieldsParam(q)
             q2 == IF ~q1.isNil /\ cl.appName # "" THEN Set(q1, "client", <<cl.appName>>) ELSE q1
             u == [isNil |-> FALSE, Path |-> PathJoinSearch(cl.baseURL.Path), RawQuery |-> Encode(q2)]
         IN  NewRequestResult([isNil |-> FALSE, URL |-> u, XRequestId |-> requestID], NoError, q2)

\* a plausible slip: the client parameter is set whatever the application
\* name is
newSearchRequestAlwaysSetsClient(cl, q, requestID) ==
    IF cl.baseURL.isNil
    THEN NewRequestResult(NilRequest, ErrInvalidBaseURL, q)
    ELSE IF urlParseFails(PathJoinSearch(cl.baseURL.Path))
    THEN NewRequestResult(NilRequest, URLParseError, q)
    ELSE LET q1 == ensureCorrectFieldsParam(q)
             q2 == IF ~q1.isNil THEN Set(q1, "client", <<cl.appName>>) ELSE q1
             u == [isNil |-> FALSE, Path |-> PathJoinSearch(cl.baseURL.Path), RawQuery |-> Encode(q2)]
         IN  NewRequestResult([isNil |-> FALSE, URL |-> u, XRequestId |-> requestID], NoError, q2)

newSearchRequest(cl, q, requestID) ==
    IF cl.baseURL.isNil
    THEN NewRequestResult(NilRequest, ErrInvalidBaseURL, q)
    ELSE IF urlParseFails(PathJoinSearch(cl.baseURL.Path))
    THEN NewRequestResult(NilRequest, URLParseError, q)
    ELSE LET q1 == ensureCorrectFieldsParam(q)
             q2 == IF ~q1.isNil /\ cl.appName # "" THEN Set(q1, "client", <<cl.appName>>) ELSE q1
             u == [isNil |-> FALSE, Path |-> PathJoinSearch(cl.baseURL.Path), RawQuery |-> Encode(q2)]
         IN  NewRequestResult([isNil |-> FALSE, URL |-> u, XRequestId |-> requestID], NoError, q2)

(***************************************************************************)
(* The classification in Client.Search (src/search.go:53-66).              *)
(***************************************************************************)
\* fmt.Errorf("%d %s", resp.StatusCode, http.StatusText(resp.StatusCode))
StatusError(code) ==
    [kind |-> "fmt.Errorf", text |-> <<ToString(code), " ", StatusText(code)>>]

\* fmt.Errorf("%d %s; JSON response body malformed (%v)", ..., err)
MalformedBodyError(code, e) ==
    [kind |-> "fmt.Errorf",
     text |-> <<ToString(code), " ", StatusText(code),
                "; JSON response body malformed (">> \o e.text \o <<")">>]

\* the *APIError decoded from a body that parses
DecodeAPIError(body) == [kind |-> "APIError", text |-> <<body.message>>]

\* whether the classification reads resp.Body (src/search.go:58)
ClassifyDecodes(rs) == rs.StatusCode # StatusOK /\ isJSONResponse(rs)

\* a plausible slip: the content type checked before the status, so that a
\* non-200 response that is not JSON is reported as ErrContentTypeNotJSON
ClassifyContentTypeFirst(m, rs) ==
    IF ~isJSONResponse(rs)
    THEN Return(MetaOnly(m), ErrContentTypeNotJSON)
    ELSE IF rs.StatusCode # StatusOK
    THEN IF ~rs.Body.wellFormed
         THEN Return(MetaOnly(m), MalformedBodyError(rs.StatusCode, JSONSyntaxError))
         ELSE Return(MetaOnly(m), DecodeAPIError(rs.Body))
    ELSE NoReturn

\* a plausible slip: the failure to parse the error body is swallowed and
\* the plain status error returned
ClassifySwallowsMalformed(m, rs) ==
    IF rs.StatusCode # StatusOK
    THEN IF ~isJSONResponse(rs) \/ ~rs.Body.wellFormed
         THEN Return(MetaOnly(m), StatusError(rs.StatusCode))
         ELSE Return(MetaOnly(m), DecodeAPIError(rs.Body))
    ELSE IF ~isJSONResponse(rs)
    THEN Return(MetaOnly(m), ErrContentTypeNotJSON)
    ELSE NoReturn

\* a plausible slip: the sentinel returned with Response{}
ClassifyDropsMeta(m, rs) ==
    IF rs.StatusCode # StatusOK
    THEN IF ~isJSONResponse(rs)
         THEN Return(MetaOnly(m), StatusError(rs.StatusCode))
         ELSE IF ~rs.Body.wellFormed
         THEN Return(MetaOnly(m), MalformedBodyError(rs.StatusCode, JSONSyntaxError))
         ELSE Return(MetaOnly(m), DecodeAPIError(rs.Body))
    ELSE IF ~isJSONResponse(rs)
    THEN Return(ZeroResponse, ErrContentTypeNotJSON)
    ELSE NoReturn

\* what Search returns at lines 53-66, or NoReturn when it goes on to
\* makeResponse
Classify(m, rs) ==
    IF rs.StatusCode # StatusOK
    THEN IF ~isJSONResponse(rs)
         THEN Return(MetaOnly(m), StatusError(rs.StatusCode))
         ELSE IF ~rs.Body.wellFormed
         THEN Return(MetaOnly(m), MalformedBodyError(rs.StatusCode, JSONSyntaxError))
         ELSE Return(MetaOnly(m), DecodeAPIError(rs.Body))
    ELSE IF ~isJSONResponse(rs)
    THEN Return(MetaOnly(m), ErrContentTypeNotJSON)
    ELSE NoReturn

(***************************************************************************)
(* makeResponse (src/search.go:133-182).                                   *)
(***************************************************************************)
Series(h) == [variant |-> "Series", ID |-> h.id, VideoID |-> "", Type |-> h.type]

Asset(h) == [variant |-> "Asset", ID |-> "", VideoID |-> h.video_id, Type |-> h.type]

\* the loop goes on with the response r
Continue(r) == [set |-> FALSE, response |-> r, err |-> NoError]

\* a plausible slip: the discriminator compared without regard to case
visitHitFoldCase(r, h) ==
    IF ~h.peekOK
    THEN Return(r, JSONTypeError)
    ELSE CASE h.type = "" -> Return(r, ErrTypeMissing)
           [] h.type \in {"series", "Series"} ->
                IF ~h.structOK
                THEN Return(r, JSONTypeError)
                ELSE Continue([r EXCEPT !.Hits = Append(@, Series(h))])
           [] OTHER ->
                IF ~h.structOK
                THEN Return(r, JSONTypeError)
                ELSE Continue([r EXCEPT !.Hits = Append(@, Asset(h))])

\* a plausible slip: a hit that fails to decode is skipped (continue) and
\* the loop goes on with the hits after it
visitHitSkipsBad(r, h) ==
    IF ~h.peekOK
    THEN Return(r, JSONTypeError)
    ELSE CASE h.type = "" -> Return(r, ErrTypeMissing)
           [] h.type = "series" ->
                IF ~h.structOK
                THEN Continue(r)
                ELSE Continue([r EXCEPT !.Hits = Append(@, Series(h))])
           [] OTHER ->
                IF ~h.structOK
                THEN Continue(r)
                ELSE Continue([r EXCEPT !.Hits = Append(@, Asset(h))])

\* one pass of the loop over v.Hits (lines 155-178): a return, or the
\* response with the hit appended
visitHit(r, h) ==
    IF ~h.peekOK
    THEN Return(r, JSONTypeError)
    ELSE CASE h.type = "" -> Return(r, ErrTypeMissing)
           [] h.type = "series" ->
                IF ~h.structOK
                THEN Return(r, JSONTypeError)
                ELSE Continue([r EXCEPT !.Hits = Append(@, Series(h))])
           [] OTHER ->
                IF ~h.structOK
                THEN Return(r, JSONTypeError)
                ELSE Continue([r EXCEPT !.Hits = Append(@, Asset(h))])

\* lines 68-73 of Search: what Search makes of makeResponse's return
SearchReturn(m, r) ==
    IF r.err # NoError
    THEN Return(MetaOnly(m), r.err)
    ELSE Return(r.response, NoError)

(***************************************************************************)
(* The deferred function of Search (src/search.go:48-51).                  *)
(***************************************************************************)
DrainLimit == 64

\* a plausible slip: io.Copy instead of io.CopyN
DrainBytesAll(u) == u

\* io.CopyN(ioutil.Discard, resp.Body, 64): the bytes it reads
DrainBytes(u) == IF u < DrainLimit THEN u ELSE DrainLimit

BodyOp(op, n) == [op |-> op, n |-> n]

(***************************************************************************)
(* One invocation of Client.Search, step by step.                          *)
(***************************************************************************)
BaseURLs == {NilURL, MakeURL(<<"api">>), MakeURL(<<"%zz">>)}

Clients ==
    {[baseURL |-> b, appName |-> a, httpClient |-> "hc"] :
        b \in BaseURLs, a \in {"", "app"}}

IdleClient == [baseURL |-> NilURL, appName |-> "", httpClient |-> "hc"]

\* the url.Values the caller passes
Queries ==
    {NilValues,
     MakeValues([k \in Keys |-> CASE k = "fields" -> <<<<"id">>>>
                                  [] k = "q" -> <<<<"x">>>>
                                  [] OTHER -> <<>>]),
     MakeValues([k \in Keys |-> CASE k = "fields" -> <<<<"id", ",", "type">>>>
                                  [] k = "client" -> <<<<"old">>>>
                                  [] OTHER -> <<>>]),
     MakeValues([k \in Keys |-> CASE k = "q" -> <<<<"x">>>>
                                  [] OTHER -> <<>>])}

\* the X-Request-Id an option sets (SetRequestID), "" without the option
RequestIDs == {"", "rid"}

ContentTypes ==
    {<<>>,
     <<<<"application/json">>>>,
     <<<<"application/json", ";", " ", "charset=utf-8">>>>,
     <<<<"text/plain">>>>}

\* what the transport may answer with
Responses ==
    {[isNil |-> FALSE, StatusCode |-> s, Header |-> MakeHeader(ct), Body |-> b] :
        s \in StatusCodes, ct \in ContentTypes, b \in Bodies}

SearchLocalsIdle ==
    /\ query = NilValues
    /\ query0 = NilValues
    /\ pc = "idle"
    /\ req = NilRequest
    /\ resp = NilResponse
    /\ doErr = NoError
    /\ meta = ZeroMeta
    /\ response = ZeroResponse
    /\ rest = <<>>
    /\ mr = NoReturn
    /\ ret = NoReturn
    /\ calls = 0
    /\ bodyLog = <<>>
    /\ unread = 0

SearchIdle == c = IdleClient /\ c0 = IdleClient /\ SearchLocalsIdle

SearchInit ==
    /\ c \in Clients
    /\ c0 = c
    /\ query \in Queries
    /\ query0 = query
    /\ pc = "start"
    /\ req = NilRequest
    /\ resp = NilResponse
    /\ doErr = NoError
    /\ meta = ZeroMeta
    /\ response = ZeroResponse
    /\ rest = <<>>
    /\ mr = NoReturn
    /\ ret = NoReturn
    /\ calls = 0
    /\ bodyLog = <<>>
    /\ unread = 0

\* lines 31-34
NewSearchRequest ==
    /\ pc = "start"
    /\ \E requestID \in RequestIDs :
          LET r == newSearchRequest(c, query, requestID)
          IN  /\ query' = r.query
              /\ req' = r.req
              /\ IF r.err # NoError
                 THEN ret' = Return(ZeroResponse, r.err) /\ pc' = "done"
                 ELSE ret' = ret /\ pc' = "do"
    /\ UNCHANGED <<c, c0, query0, resp, doErr, meta, response, rest, mr, calls,
                   bodyLog, unread, normTrace, ctSeen, concVars>>

\* lines 36-46: the transport call; the deferred function is registered
\* when it gave a response
Do ==
    /\ pc = "do"
    /\ calls' = calls + 1
    /\ \/ \E e \in TransportErrors :
             /\ doErr' = e
             /\ ret' = Return(ZeroResponse, e)
             /\ pc' = "done"
             /\ UNCHANGED <<resp, meta, unread>>
       \/ \E rs \in Responses :
             /\ resp' = rs
             /\ meta' = MakeMeta(req, rs)
             /\ unread' = BodyLen(rs.Body)
             /\ pc' = "classify"
             /\ UNCHANGED <<doErr, ret>>
    /\ UNCHANGED <<c, c0, query, query0, req, response, rest, mr, bodyLog,
                   normTrace, ctSeen, concVars>>

\* lines 53-66
ClassifyResponse ==
    /\ pc = "classify"
    /\ LET r == Classify(meta, resp)
       IN  /\ ret' = r
           /\ pc' = IF r.set THEN "drain" ELSE "makeResponse"
    /\ IF ClassifyDecodes(resp)
       THEN bodyLog' = Append(bodyLog, BodyOp("decode", unread)) /\ unread' = 0
       ELSE UNCHANGED <<bodyLog, unread>>
    /\ UNCHANGED <<c, c0, query, query0, req, resp, doErr, meta, response, rest, mr,
                   calls, normTrace, ctSeen, concVars>>

\* makeResponse, lines 134-152: the body is read and decoded into v
MakeResponseDecode ==
    /\ pc = "makeResponse"
    /\ bodyLog' = Append(bodyLog, BodyOp("decode", unread))
    /\ unread' = 0
    /\ IF ~resp.Body.wellFormed
       THEN /\ mr' = Return(MetaOnly(MakeMeta(req, resp)), JSONSyntaxError)
            /\ pc' = "returned"
            /\ UNCHANGED <<response, rest>>
       ELSE /\ response' = [TotalHits |-> resp.Body.total_hits, Hits |-> <<>>,
                            Meta |-> MakeMeta(req, resp)]
            /\ rest' = resp.Body.assets
            /\ pc' = "loop"
            /\ mr' = mr
    /\ UNCHANGED <<c, c0, query, query0, req, resp, doErr, meta, ret, calls,
                   normTrace, ctSeen, concVars>>

\* makeResponse, lines 154-181: one pass of the loop, or the return after it
MakeResponseLoop ==
    /\ pc = "loop"
    /\ IF rest = <<>>
       THEN /\ mr' = Return(response, NoError)
            /\ pc' = "returned"
            /\ UNCHANGED <<response, rest>>
       ELSE LET r == visitHit(response, Head(rest))
            IN  IF r.set
                THEN /\ mr' = r
                     /\ pc' = "returned"
                     /\ UNCHANGED <<response, rest>>
                ELSE /\ response' = r.response
                     /\ rest' = Tail(rest)
                     /\ UNCHANGED <<mr, pc>>
    /\ UNCHANGED <<c, c0, query, query0, req, resp, doErr, meta, ret, calls,
                   bodyLog, unread, normTrace, ctSeen, concVars>>

\* lines 68-73
ReturnFromSearch ==
    /\ pc = "returned"
    /\ ret' = SearchReturn(meta, mr)
    /\ pc' = "drain"
    /\ UNCHANGED <<c, c0, query, query0, req, resp, doErr, meta, response, rest, mr,
                   calls, bodyLog, unread, normTrace, ctSeen, concVars>>

\* line 49, run as Search returns
Drain ==
    /\ pc = "drain"
    /\ bodyLog' = Append(bodyLog, BodyOp("drain", DrainBytes(unread)))
    /\ unread' = unread - DrainBytes(unread)
    /\ pc' = "close"
    /\ UNCHANGED <<c, c0, query, query0, req, resp, doErr, meta, response, rest, mr,
                   ret, calls, normTrace, ctSeen, concVars>>

\* line 50
Close ==
    /\ pc = "close"
    /\ bodyLog' = Append(bodyLog, BodyOp("close", 0))
    /\ pc' = "done"
    /\ UNCHANGED <<c, c0, query, query0, req, resp, doErr, meta, response, rest, mr,
                   ret, calls, unread, normTrace, ctSeen, concVars>>

SearchNext ==
    \/ NewSearchRequest
    \/ Do
    \/ ClassifyResponse
    \/ MakeResponseDecode
    \/ MakeResponseLoop
    \/ ReturnFromSearch
    \/ Drain
    \/ Close

(***************************************************************************)
(* The normalizer alone: Init draws a url.Values, NormApply applies        *)
(* ensureCorrectFieldsParam to it, twice at most.                          *)
(***************************************************************************)
FieldAtoms == {"id", "type", ","}

FieldStrings == SeqsUpTo(FieldAtoms, MaxFieldLen)

\* the lists of values a fields key is tried with: absent, one value, and
\* two values, the first of them drawn from every string
FieldLists ==
    {<<>>} \cup {<<s>> : s \in FieldStrings}
           \cup {<<s, t>> : s \in FieldStrings, t \in {<<"type">>, <<"id">>}}

NormInputs ==
    {NilValues} \cup
    {MakeValues([k \in Keys |-> CASE k = "fields" -> fl
                                  [] k = "q" -> qv
                                  [] OTHER -> <<>>]) :
        fl \in FieldLists, qv \in {<<>>, <<<<"id">>>>}}

NormIdle == normTrace = <<>>

NormInit == normTrace \in {<<q>> : q \in NormInputs}

NormApply ==
    /\ Len(normTrace) \in 1..2
    /\ normTrace' = Append(normTrace, ensureCorrectFieldsParam(normTrace[Len(normTrace)]))
    /\ UNCHANGED <<searchVars, ctSeen, concVars>>

(***************************************************************************)
(* isJSONResponse alone: Init draws a response header, IsJSONApply records *)
(* the answer.                                                             *)
(***************************************************************************)
CTAtoms == {"application/json", " ", ";", "charset=utf-8", "charset=iso-8859-1",
            "text/plain", "randomnoise"}

CTStrings == SeqsUpTo(CTAtoms, MaxCTLen)

\* the lists of Content-Type values tried: none, one, and two with the
\* first drawn from every string
CTLists ==
    {<<>>} \cup {<<s>> : s \in CTStrings}
           \cup {<<s, t>> : s \in CTStrings, t \in {<<"application/json">>, <<"text/plain">>}}

CTResponse(cts) ==
    [isNil |-> FALSE, StatusCode |-> StatusOK, Header |-> MakeHeader(cts), Body |-> NilBody]

CTIdle == ctSeen = [step |-> "idle", resp |-> NilResponse, isJSON |-> FALSE]

CTInit ==
    ctSeen \in {[step |-> "start", resp |-> CTResponse(cts), isJSON |-> FALSE] :
                   cts \in CTLists}

IsJSONApply ==
    /\ ctSeen.step = "start"
    /\ ctSeen' = [ctSeen EXCEPT !.step = "done", !.isJSON = isJSONResponse(ctSeen.resp)]
    /\ UNCHANGED <<searchVars, normTrace, concVars>>

(***************************************************************************)
(* Two invocations of Search on one Client, interleaved.  Only the steps   *)
(* of newSearchRequest and the transport call touch objects that another   *)
(* invocation can reach: the Client and the caller's url.Values, a map     *)
(* that Go passes by reference.  Each invocation i is given heap[qref[i]], *)
(* or the nil map when qref[i] = 0; acc[i] holds the places it has read    *)
(* (r) and written (w).                                                    *)
(***************************************************************************)
Procs == {1, 2}

MapIds == {1, 2}

ConcQueries == Queries \ {NilValues}

\* the url.Values invocation i works on
QueryOf(i) == IF qref[i] = 0 THEN NilValues ELSE heap[qref[i]]

\* the keys of the caller's map as places: none for the nil map
QueryPlaces(i, keys) == IF qref[i] = 0 THEN {} ELSE {<<"query", qref[i], k>> : k \in keys}

ClientPlace(f) == <<"client", 0, f>>

Reads(i, places) == [acc EXCEPT ![i].r = @ \cup places]

Writes(i, places) == [acc EXCEPT ![i].w = @ \cup places]

ConcIdle ==
    /\ heap = <<>>
    /\ qref = <<>>
    /\ cpc = <<>>
    /\ local = <<>>
    /\ acc = <<>>
    /\ cout = <<>>

ConcInit ==
    /\ c \in Clients
    /\ c0 = c
    /\ heap \in [MapIds -> ConcQueries]
    /\ qref \in [Procs -> {0} \cup MapIds]
    /\ cpc = [i \in Procs |-> "start"]
    /\ local = [i \in Procs |-> [fields |-> EmptyString, query0 |-> QueryOf(i)]]
    /\ acc = [i \in Procs |-> [r |-> {}, w |-> {}]]
    /\ cout = [i \in Procs |-> <<>>]

\* newSearchRequest, lines 77-86
ConcStart(i) ==
    /\ cpc[i] = "start"
    /\ acc' = Reads(i, {ClientPlace("baseURL")})
    /\ cpc' = [cpc EXCEPT ![i] =
                  IF c.baseURL.isNil \/ urlParseFails(PathJoinSearch(c.baseURL.Path))
                  THEN "done" ELSE "get"]
    /\ UNCHANGED <<heap, qref, local, cout, notConcVars>>

\* ensureCorrectFieldsParam, line 111: fields := query.Get("fields")
ConcGetFields(i) ==
    /\ cpc[i] = "get"
    /\ local' = [local EXCEPT ![i].fields = Get(QueryOf(i), "fields")]
    /\ acc' = Reads(i, QueryPlaces(i, {"fields"}))
    /\ cpc' = [cpc EXCEPT ![i] = "set"]
    /\ UNCHANGED <<heap, qref, cout, notConcVars>>

\* ensureCorrectFieldsParam, lines 112-121: query.Set("fields", fields+",type")
ConcSetFields(i) ==
    /\ cpc[i] = "set"
    /\ LET fields == local[i].fields
           parts == Split(fields, ",")
           match == \E k \in 1..Len(parts) : parts[k] = <<"type">>
       IN  IF fields # EmptyString /\ ~match
           THEN /\ heap' = [heap EXCEPT ![qref[i]] = Set(@, "fields", fields \o <<",", "type">>)]
                /\ acc' = Writes(i, QueryPlaces(i, {"fields"}))
           ELSE UNCHANGED <<heap, acc>>
    /\ cpc' = [cpc EXCEPT ![i] = "client"]
    /\ UNCHANGED <<qref, local, cout, notConcVars>>

\* newSearchRequest, lines 90-92: query.Set("client", c.appName)
ConcSetClient(i) ==
    /\ cpc[i] = "client"
    /\ IF qref[i] # 0 /\ c.appName # ""
       THEN /\ heap' = [heap EXCEPT ![qref[i]] = Set(@, "client", <<c.appName>>)]
            /\ acc' = [acc EXCEPT ![i].r = @ \cup {ClientPlace("appName")},
                                  ![i].w = @ \cup QueryPlaces(i, {"client"})]
       ELSE /\ heap' = heap
            /\ acc' = IF qref[i] # 0 THEN Reads(i, {ClientPlace("appName")}) ELSE acc
    /\ cpc' = [cpc EXCEPT ![i] = "encode"]
    /\ UNCHANGED <<qref, local, cout, notConcVars>>

\* newSearchRequest, line 94: u.RawQuery = query.Encode()
ConcEncode(i) ==
    /\ cpc[i] = "encode"
    /\ cout' = [cout EXCEPT ![i] = Encode(QueryOf(i))]
    /\ acc' = Reads(i, QueryPlaces(i, Keys))
    /\ cpc' = [cpc EXCEPT ![i] = "do"]
    /\ UNCHANGED <<heap, qref, local, notConcVars>>

\* Search, line 36: c.httpClient.Do(req); what follows works on the
\* invocation's own request and response
ConcDo(i) ==
    /\ cpc[i] = "do"
    /\ acc' = Reads(i, {ClientPlace("httpClient")})
    /\ cpc' = [cpc EXCEPT ![i] = "done"]
    /\ UNCHANGED <<heap, qref, local, cout, notConcVars>>

ConcNext ==
    \E i \in Procs :
        \/ ConcStart(i)
        \/ ConcGetFields(i)
        \/ ConcSetFields(i)
        \/ ConcSetClient(i)
        \/ ConcEncode(i)
        \/ ConcDo(i)

(***************************************************************************)
(* The specifications.                                                     *)
(***************************************************************************)
Init == SearchInit /\ NormIdle /\ CTIdle /\ ConcIdle

Next == SearchNext

Spec == Init /\ [][Next]_vars

NormNext == NormApply

InitNorm == SearchIdle /\ NormInit /\ CTIdle /\ ConcIdle

SpecNorm == InitNorm /\ [][NormNext]_vars

JSONNext == IsJSONApply

InitJSON == SearchIdle /\ NormIdle /\ CTInit /\ ConcIdle

SpecJSON == InitJSON /\ [][JSONNext]_vars

InitConc == SearchLocalsIdle /\ NormIdle /\ CTIdle /\ ConcInit

SpecConc == InitConc /\ [][ConcNext]_vars

(***************************************************************************)
(* C7.  ensureCorrectFieldsParam: when the fields parameter is non-empty   *)
(* and no element of its comma-separated list is "type", the fields value  *)
(* becomes the old value with ",type" appended once and no other key       *)
(* changes; when "type" is an element, or fields is absent or empty, the   *)
(* url.Values is left as it was; a second application changes nothing.     *)
(***************************************************************************)
\* "type" is an element of the comma-separated list s
HasTypeElement(s) ==
    \E i \in 1..Len(s) :
        /\ s[i] = "type"
        /\ (i = 1 \/ s[i - 1] = ",")
        /\ (i = Len(s) \/ s[i + 1] = ",")

C7_NormalizerContract ==
    /\ Len(normTrace) >= 2 =>
          LET before == normTrace[1]
              after == normTrace[2]
              f == Get(before, "fields")
          IN  /\ (f # EmptyString /\ ~HasTypeElement(f)) =>
                    /\ Get(after, "fields") = f \o <<",", "type">>
                    /\ Len(after.m["fields"]) = 1
                    /\ \A k \in Keys \ {"fields"} : after.m[k] = before.m[k]
                    /\ after.isNil = before.isNil
              /\ (f # EmptyString /\ HasTypeElement(f)) => after = before
              /\ f = EmptyString => after = before
    /\ Len(normTrace) = 3 => normTrace[3] = normTrace[2]

\* "typeid" holds the text type but no element type: ",type" is appended,
\* and the second application leaves "typeid,type" alone
C7_Witness ==
    /\ Len(normTrace) = 3
    /\ Get(normTrace[1], "fields") = <<"type", "id">>
    /\ Get(normTrace[3], "fields") = <<"type", "id", ",", "type">>

(***************************************************************************)
(* Notions the claims about Search share.                                  *)
(***************************************************************************)
\* Search has returned after the transport gave a response
ReturnedWithResponse == pc = "done" /\ ~resp.isNil

\* resp.Body was decoded at some point
BodyDecoded == \E i \in 1..Len(bodyLog) : bodyLog[i].op = "decode"

\* a raw hit that decodes: it can be peeked, has a type and is well-typed
ValidHit(h) == h.peekOK /\ h.type # "" /\ h.structOK

\* the hit that the raw hit h is to be decoded to
ExpectedHit(h) ==
    IF h.type = "series"
    THEN [variant |-> "Series", ID |-> h.id, VideoID |-> "", Type |-> h.type]
    ELSE [variant |-> "Asset", ID |-> "", VideoID |-> h.video_id, Type |-> h.type]

(***************************************************************************)
(* C1.  When Search receives a 200 JSON response whose hit array has an    *)
(* element without a type at index k, valid hits before it, Search returns *)
(* ErrTypeMissing together with a Response that holds the k hits decoded   *)
(* before that element and the body's total-hit count.                     *)
(***************************************************************************)
C1_PartialResultReachesCaller ==
    (/\ ReturnedWithResponse
     /\ resp.StatusCode = 200
     /\ isJSONResponse(resp)
     /\ resp.Body.wellFormed) =>
        \A k \in 1..Len(resp.Body.assets) :
            (/\ resp.Body.assets[k].peekOK
             /\ resp.Body.assets[k].type = ""
             /\ \A j \in 1..(k - 1) : ValidHit(resp.Body.assets[j])) =>
                /\ ret.err = ErrTypeMissing
                /\ ret.response.Hits =
                       [j \in 1..(k - 1) |-> ExpectedHit(resp.Body.assets[j])]
                /\ ret.response.TotalHits = resp.Body.total_hits

(***************************************************************************)
(* C2.  Search classifies every response it receives by (status = 200,     *)
(* content type is JSON) alone: 200 and JSON, the body is decoded as hits  *)
(* by makeResponse; not 200 and JSON, a structured error decoded from the  *)
(* body; not 200 and not JSON, the error "<status code> <reason phrase>";  *)
(* 200 and not JSON, ErrContentTypeNotJSON.  In the two outcomes without   *)
(* JSON the body is never decoded.                                         *)
(***************************************************************************)
C2_ClassificationTotal ==
    ReturnedWithResponse =>
        LET ok == resp.StatusCode = 200
            js == isJSONResponse(resp)
            code == ToString(resp.StatusCode)
        IN  /\ (ok /\ js) => mr.set /\ BodyDecoded /\ ret.err = mr.err
            /\ (~ok /\ js) =>
                  /\ ~mr.set
                  /\ BodyDecoded
                  /\ \/ ret.err.kind = "APIError"
                     \/ ret.err.kind = "fmt.Errorf" /\ Len(ret.err.text) > 3
            /\ (~ok /\ ~js) =>
                  /\ ~mr.set
                  /\ ~BodyDecoded
                  /\ ret.err.kind = "fmt.Errorf"
                  /\ Len(ret.err.text) = 3
                  /\ ret.err.text[1] = code
                  /\ ret.err.text[2] = " "
                  /\ resp.StatusCode = 500 => ret.err.text[3] = "Internal Server Error"
                  /\ resp.StatusCode = 404 => ret.err.text[3] = "Not Found"
            /\ (ok /\ ~js) =>
                  /\ ~mr.set
                  /\ ~BodyDecoded
                  /\ ret.err = ErrContentTypeNotJSON

\* status 500 with text/plain and a body that would parse as two hits
C2_Witness ==
    /\ ReturnedWithResponse
    /\ resp.StatusCode = 500
    /\ resp.Header.ContentType = <<<<"text/plain">>>>
    /\ Len(resp.Body.assets) = 2
    /\ ret.err.text = <<"500", " ", "Internal Server Error">>
    /\ ~BodyDecoded

(***************************************************************************)
(* C3.  For a response that is not 200 and is JSON, Search returns the     *)
(* APIError decoded from the body when the body parses, and otherwise an   *)
(* error that embeds the status code, its reason phrase and the parse      *)
(* failure; either way Meta.StatusCode is the response status and no hits  *)
(* are returned.                                                           *)
(***************************************************************************)
C3_StructuredError ==
    (ReturnedWithResponse /\ resp.StatusCode # 200 /\ isJSONResponse(resp)) =>
        /\ resp.Body.wellFormed =>
              ret.err = [kind |-> "APIError", text |-> <<resp.Body.message>>]
        /\ ~resp.Body.wellFormed =>
              /\ ret.err.kind = "fmt.Errorf"
              /\ Len(ret.err.text) > 3
              /\ ret.err.text[1] = ToString(resp.StatusCode)
              /\ resp.StatusCode = 404 => ret.err.text[3] = "Not Found"
              /\ resp.StatusCode = 500 => ret.err.text[3] = "Internal Server Error"
              /\ \E i \in 4..Len(ret.err.text) : ret.err.text[i] = "invalid character"
        /\ ret.response.Meta.StatusCode = resp.StatusCode
        /\ ret.response.Hits = <<>>

\* status 404 with the JSON error body {"message":"not found"}
C3_Witness ==
    /\ ReturnedWithResponse
    /\ resp.StatusCode = 404
    /\ resp.Header.ContentType = <<<<"application/json">>>>
    /\ resp.Body.wellFormed
    /\ resp.Body.message = "not found"
    /\ ret.err = [kind |-> "APIError", text |-> <<"not found">>]
    /\ ret.response.Meta.StatusCode = 404

(***************************************************************************)
(* C4.  As claimed: on every return path of Search, those before a         *)
(* response exists included, the returned Response carries Meta with the   *)
(* response status code, the response header set and the request URL.      *)
(***************************************************************************)
C4_MetaOnEveryReturn ==
    pc = "done" =>
        ret.response.Meta =
            [StatusCode |-> resp.StatusCode, Header |-> resp.Header,
             RequestURL |-> req.URL]

(***************************************************************************)
(* C4, amended.  On every return path of Search after the transport call   *)
(* gave a response, the returned Response carries Meta with the response   *)
(* status code, the response header set and the request URL; on the return *)
(* paths before a response exists Search returns the zero Response.        *)
(***************************************************************************)
C4_MetaOnceResponded ==
    pc = "done" =>
        IF resp.isNil
        THEN ret.response = ZeroResponse
        ELSE /\ ret.response.Meta =
                    [StatusCode |-> resp.StatusCode, Header |-> resp.Header,
                     RequestURL |-> req.URL]
             /\ ~ret.response.Meta.RequestURL.isNil
             /\ ~ret.response.Meta.Header.isNil

\* a 200 response that is not JSON: the sentinel comes with the Meta
C4_Witness ==
    /\ ReturnedWithResponse
    /\ ret.err = ErrContentTypeNotJSON
    /\ ret.response.Meta.StatusCode = 200
    /\ ret.response.Meta.RequestURL.Path = <<"api", "search">>

(***************************************************************************)
(* C5.  Once the transport call has given a response, every exit path of   *)
(* Search drains at most 64 unread bytes of the body and then closes it    *)
(* exactly once, the drain before the close and both after all decoding;   *)
(* no path returns with the body open.                                     *)
(***************************************************************************)
C5_DrainThenClose ==
    /\ resp.isNil => bodyLog = <<>>
    /\ \A i \in 1..Len(bodyLog) :
          /\ bodyLog[i].op = "close" => i = Len(bodyLog) /\ pc = "done"
          /\ bodyLog[i].op = "drain" =>
                /\ i >= Len(bodyLog) - 1
                /\ bodyLog[i].n <= 64
                /\ \A j \in (i + 1)..Len(bodyLog) : bodyLog[j].op = "close"
    /\ ReturnedWithResponse =>
          LET n == Len(bodyLog)
          IN  /\ n >= 2
              /\ bodyLog[n].op = "close"
              /\ bodyLog[n - 1].op = "drain"
              /\ \A i \in 1..(n - 2) : bodyLog[i].op = "decode"
              /\ bodyLog[n - 1].n =
                    IF BodyDecoded THEN 0
                    ELSE IF BodyLen(resp.Body) < 64 THEN BodyLen(resp.Body) ELSE 64

\* a body of 110 bytes that is never decoded: 64 bytes drained, then closed
C5_Witness ==
    /\ ReturnedWithResponse
    /\ BodyLen(resp.Body) > 64
    /\ bodyLog = <<BodyOp("drain", 64), BodyOp("close", 0)>>
    /\ unread = BodyLen(resp.Body) - 64

(***************************************************************************)
(* C6.  As claimed: one Search invocation makes no transport call when the *)
(* client has no base URL, returning ErrInvalidBaseURL, and exactly one    *)
(* otherwise.                                                              *)
(***************************************************************************)
C6_ZeroCallsOnlyWithoutBaseURL ==
    pc = "done" =>
        IF c.baseURL.isNil
        THEN calls = 0 /\ ret.err = ErrInvalidBaseURL
        ELSE calls = 1

(***************************************************************************)
(* C6, amended.  One Search invocation makes no transport call when the    *)
(* client has no base URL (it returns ErrInvalidBaseURL) or when the       *)
(* search URL does not parse (it returns url.Parse's error), and exactly   *)
(* one otherwise; no outcome of the call leads to a second call, and a     *)
(* transport error is returned to the caller unchanged.                    *)
(***************************************************************************)
C6_TransportCalls ==
    /\ calls <= 1
    /\ pc \notin {"start", "do", "done"} => calls = 1
    /\ pc = "done" =>
          LET badPath == \E i \in 1..Len(c.baseURL.Path) : c.baseURL.Path[i] = "%zz"
          IN  /\ c.baseURL.isNil => calls = 0 /\ ret.err = ErrInvalidBaseURL
              /\ (~c.baseURL.isNil /\ badPath) =>
                    calls = 0 /\ ret.err.kind = "url.Error"
              /\ (~c.baseURL.isNil /\ ~badPath) => calls = 1
              /\ doErr # NoError => ret.err = doErr /\ ret.response = ZeroResponse

\* the transport call failed: one call, its error returned as it is
C6_Witness ==
    /\ pc = "done"
    /\ calls = 1
    /\ doErr = [kind |-> "transport", text |-> <<"context deadline exceeded">>]
    /\ ret.err = doErr

(***************************************************************************)
(* C10.  When makeResponse decodes a hit array of n elements that all have *)
(* a type and are well-typed, it returns no error and n hits, the i-th hit *)
(* decoded from the i-th element: a Series when its type is exactly        *)
(* "series", an Asset for every other type.                                *)
(***************************************************************************)
C10_OrderPreservingDecode ==
    (/\ mr.set
     /\ resp.Body.wellFormed
     /\ \A i \in 1..Len(resp.Body.assets) : ValidHit(resp.Body.assets[i])) =>
        /\ mr.err = NoError
        /\ Len(mr.response.Hits) = Len(resp.Body.assets)
        /\ \A i \in 1..Len(resp.Body.assets) :
              LET h == resp.Body.assets[i]
                  hit == mr.response.Hits[i]
              IN  /\ hit.Type = h.type
                  /\ h.type = "series" =>
                        hit.variant = "Series" /\ hit.ID = h.id
                  /\ h.type # "series" =>
                        hit.variant = "Asset" /\ hit.VideoID = h.video_id

\* {"total_hits":2,"assets":[{"type":"series","id":"s1"},
\*                           {"type":"movie","video_id":"a1"}]}
C10_Witness ==
    /\ mr.set
    /\ resp.Body.total_hits = 2
    /\ Len(resp.Body.assets) = 2
    /\ mr.err = NoError
    /\ mr.response.TotalHits = 2
    /\ mr.response.Hits[1].variant = "Series"
    /\ mr.response.Hits[1].ID = "s1"
    /\ mr.response.Hits[2].variant = "Asset"
    /\ mr.response.Hits[2].Type = "movie"
    /\ mr.response.Hits[2].VideoID = "a1"

(***************************************************************************)
(* C8.  As claimed: concurrent Search invocations on one Client share no   *)
(* mutable state: in every interleaving of two invocations, neither writes *)
(* a place that the other reads or writes, and each builds the request it  *)
(* would build when run alone.                                             *)
(***************************************************************************)
C8_InvocationsIndependent ==
    \A i \in Procs : \A j \in Procs \ {i} :
        /\ acc[i].w \cap (acc[j].r \cup acc[j].w) = {}
        /\ cpc[i] \in {"do", "done"} /\ cout[i] # <<>> =>
              cout[i] = newSearchRequest(c, local[i].query0, "").req.URL.RawQuery

(***************************************************************************)
(* C9.  isJSONResponse answers true exactly when the first Content-Type    *)
(* value, with surrounding spaces and what follows a ";" ignored, is       *)
(* application/json; the values of TestIsJSONResponse and an absent        *)
(* Content-Type are classified as the test and the claim say.              *)
(***************************************************************************)
\* the value s is application/json between spaces, then the end or a ";"
IsJSONValue(s) ==
    \E i \in 1..Len(s) :
        /\ s[i] = "application/json"
        /\ \A j \in 1..(i - 1) : s[j] = " "
        /\ \E k \in (i + 1)..(Len(s) + 1) :
              /\ \A j \in (i + 1)..(k - 1) : s[j] = " "
              /\ k = Len(s) + 1 \/ s[k] = ";"

C9_ContentTypeIsJSON ==
    ctSeen.step = "done" =>
        LET cts == ctSeen.resp.Header.ContentType
        IN  /\ ctSeen.isJSON <=> (Len(cts) > 0 /\ IsJSONValue(cts[1]))
            /\ cts = <<>> => ~ctSeen.isJSON
            /\ cts = <<<<"application/json">>>> => ctSeen.isJSON
            /\ cts = <<<<"application/json", ";", " ", "charset=utf-8">>>> => ctSeen.isJSON
            /\ cts = <<<<"application/json", ";", " ", "charset=iso-8859-1">>>> => ctSeen.isJSON
            /\ cts = <<<<"text/plain">>>> => ~ctSeen.isJSON
            /\ cts = <<<<"randomnoise", "application/json", "randomnoise">>>> => ~ctSeen.isJSON

\* "application/json; charset=utf-8" is JSON
C9_Witness ==
    /\ ctSeen.step = "done"
    /\ ctSeen.resp.Header.ContentType = <<<<"application/json", ";", " ", "charset=utf-8">>>>
    /\ ctSeen.isJSON

(***************************************************************************)
(* C11.  In makeResponse, at every step of the decode loop and in every    *)
(* value it returns, the accumulated hits are the hits of a prefix of the  *)
(* array, in source order: an abort at the first element that has no type, *)
(* cannot be peeked or fails to decode returns exactly the hits of the     *)
(* elements before it and none of a later element, and TotalHits is the    *)
(* body's total_hits whatever the outcome of the hits.                     *)
(***************************************************************************)
\* the place of the first raw hit of a that does not decode, Len(a) + 1
\* when all do
FirstBadHit(a) ==
    IF \A i \in 1..Len(a) : ValidHit(a[i])
    THEN Len(a) + 1
    ELSE CHOOSE k \in 1..Len(a) :
             ~ValidHit(a[k]) /\ \A j \in 1..(k - 1) : ValidHit(a[j])

\* the hits of the first n elements of a
ExpectedHits(a, n) == [j \in 1..n |-> ExpectedHit(a[j])]

C11_HitsArePrefix ==
    LET a == resp.Body.assets
        bad == FirstBadHit(a)
    IN  /\ pc = "loop" =>
              LET n == Len(a) - Len(rest)
              IN  /\ n >= 0
                  /\ n < bad
                  /\ rest = SubSeq(a, n + 1, Len(a))
                  /\ response.Hits = ExpectedHits(a, n)
                  /\ response.TotalHits = resp.Body.total_hits
        /\ (mr.set /\ resp.Body.wellFormed) =>
              /\ mr.response.Hits = ExpectedHits(a, bad - 1)
              /\ mr.response.TotalHits = resp.Body.total_hits
              /\ mr.err = NoError <=> bad = Len(a) + 1
              /\ (bad <= Len(a) /\ a[bad].peekOK /\ a[bad].type = "") =>
                    mr.err = ErrTypeMissing
        /\ (mr.set /\ ~resp.Body.wellFormed) => mr.response.Hits = <<>>

\* the second of two hits fails to decode, a valid hit before it: the one
\* hit and the total count are returned with the error
C11_Witness ==
    /\ mr.set
    /\ Len(resp.Body.assets) = 2
    /\ ValidHit(resp.Body.assets[1])
    /\ resp.Body.assets[2].peekOK
    /\ resp.Body.assets[2].type = "movie"
    /\ ~resp.Body.assets[2].structOK
    /\ mr.err = JSONTypeError
    /\ mr.response.Hits = <<ExpectedHit(resp.Body.assets[1])>>
    /\ mr.response.TotalHits = 7

(***************************************************************************)
(* C12.  As claimed: after any Search invocation that passes the base-URL  *)
(* check, the caller's query has fields normalized to include "type" (when *)
(* fields was non-empty) and, when the query is not nil and the client's   *)
(* application name is not empty, client set to that name; every other key *)
(* of the query and the Client's own fields are unchanged.                 *)
(***************************************************************************)
C12_QueryChangedOnceBaseURLSet ==
    /\ c = c0
    /\ (pc = "done" /\ ~c.baseURL.isNil) =>
          /\ Get(query0, "fields") # EmptyString =>
                HasTypeElement(Get(query, "fields"))
          /\ (~query0.isNil /\ c.appName # "") =>
                query.m["client"] = <<<<c.appName>>>>
          /\ \A k \in Keys \ {"fields", "client"} : query.m[k] = query0.m[k]
          /\ query.isNil = query0.isNil

(***************************************************************************)
(* C12, amended.  Search changes the caller's query in place and only at   *)
(* two keys: after any Search invocation that builds its request URL (the  *)
(* client has a base URL and its path joined with /search parses), fields  *)
(* is normalized to include "type" (when fields was non-empty) and, when   *)
(* the query is not nil and the application name is not empty, client is   *)
(* set to that name; an invocation that fails before that leaves the query *)
(* as it was; every other key of the query and the Client's own fields are *)
(* unchanged.                                                              *)
(***************************************************************************)
C12_QueryFrame ==
    /\ c = c0
    /\ pc = "start" => query = query0
    /\ pc # "start" =>
          LET built == ~c.baseURL.isNil
                           /\ \A i \in 1..Len(c.baseURL.Path) : c.baseURL.Path[i] # "%zz"
              f == Get(query0, "fields")
          IN  /\ ~built => query = query0
              /\ built =>
                    /\ query.isNil = query0.isNil
                    /\ \A k \in Keys \ {"fields", "client"} : query.m[k] = query0.m[k]
                    /\ query.m["fields"] =
                          IF f # EmptyString /\ ~HasTypeElement(f)
                          THEN <<f \o <<",", "type">>>>
                          ELSE query0.m["fields"]
                    /\ query.m["client"] =
                          IF ~query0.isNil /\ c.appName # ""
                          THEN <<<<c.appName>>>>
                          ELSE query0.m["client"]

\* fields=id, q=x and the application name app: fields becomes id,type,
\* client becomes app, q stays
C12_Witness ==
    /\ pc = "done"
    /\ c.appName = "app"
    /\ query0.m["fields"] = <<<<"id">>>>
    /\ query0.m["client"] = <<>>
    /\ query.m["fields"] = <<<<"id", ",", "type">>>>
    /\ query.m["client"] = <<<<"app">>>>
    /\ query.m["q"] = <<<<"x">>>>

====
